---- MODULE Spec2Model ----
(***************************************************************************)
(* The process supervisor of mcp-daemonize (src/daemon.go, the Daemon     *)
(* type with the done channel, lines 135-302) as a state machine.         *)
(*                                                                         *)
(* One Daemon value is shared by caller goroutines, which call Start,     *)
(* Stop and Status, and by the two goroutines every successful Start      *)
(* spawns: the watcher (lines 190-207) and the waiter (lines 208-230).    *)
(* Every statement that reads or writes a shared field or makes a system  *)
(* call is one step, so the goroutines interleave as the Go scheduler     *)
(* lets them.  The operating system is the environment: a child may exit  *)
(* at any time and with any status, may fork a descendant into its        *)
(* process group, and contexts may be cancelled at any time.              *)
(***************************************************************************)
EXTENDS Integers, FiniteSets, Sequences, TLC

\* How many exec.Cmd values the callers may create (calls of Start).
MaxStarts == 2

\* How many children may be unreaped at once: with 1, the callers call Start
\* again only when the child of the previous Start has been reaped.
MaxLive == 1

\* How many descendants of the children are alive at a time, at most.
MaxDescendants == 1

Cmds == 1..MaxStarts

\* d.cmd == nil
NilCmd == 0

Callers == {<<"caller", 1>>}

Watchers == {<<"watcher", k>> : k \in Cmds}

\* The goroutines that can run Status and Stop.
Threads == Callers \cup Watchers

\* The zero value of the mutex owner: d.mu is unlocked.
Unlocked == <<"nobody", 0>>

\* context.Background() and one context that its owner can cancel.
Contexts == {"background", "cancellable"}

\* The largest exit code a child exits with.
MaxExitCode == 1

ExitCodes == 0..MaxExitCode

\* The wait status of a child: not yet terminated, killed by a signal, or
\* exited with a code.
Alive == <<"alive">>

Signaled == <<"signaled">>

Exited(code) == <<"exited", code>>

WaitStatuses == {Signaled} \cup {Exited(c) : c \in ExitCodes}

\* error values
NoError == <<"nil">>

ErrDaemonNotRunning == <<"daemon not running">>

ESRCH == <<"ESRCH">>

ErrProcessDone == <<"os: process already finished">>

Wrap(prefix, err) == <<prefix>> \o err

\* fmt.Errorf("daemon %s exited with error: %w", d.Name, err) around an
\* *exec.ExitError, whose text is "exit status <code>".
ExitErrorOf(code) == <<"exited with error", "exit status", code>>

ErrTimeout == <<"graceful shutdown timed out">>

ErrCanceled == <<"context canceled">>

\* io.EOF
EOF == <<"EOF">>

\* The arguments p of Write: the empty chunk, a line without and with its
\* newline, and two newlines.
Chunks == {<<>>, <<"a">>, <<"a", "\n">>, <<"\n", "\n">>}

\* m.maxLines, the capacity of the memoryLogger: 1024 in NewMemoryLogger
\* (logger.go:18), scaled down here.
maxLines == 3

\* How many lines are written at most before the Logger is emptied again.
MaxWritten == 5

\* How many Daemons the tools make at most.
MaxDaemons == 3

\* The Daemons of the Server, by the order they were made in.
DaemonIds == 1..MaxDaemons

\* The name arguments of the tools.
Names == {"a", "b"}

\* s.Daemons has no entry for a name.
NoDaemon == 0

\* The arguments of ReadLine: negative, inside and beyond the buffer.
Offsets == -1..(maxLines + 1)

VARIABLES
  cmd,         \* d.cmd: NilCmd or the exec.Cmd it points to
  ncmd,        \* number of exec.Cmd values created so far
  cmdProcess,  \* cmdProcess[k]: Cmd k has a Process (cmd.Start succeeded)
  waitCalled,  \* waitCalled[k]: some goroutine has called Wait on Cmd k
  mu,          \* d.mu: the goroutine that holds it, or Unlocked
  exitError,   \* d.exitError
  done,        \* d.done is closed
  crashed,     \* the Go process has panicked
  proc,        \* proc[k]: the child of Cmd k: "none", "running", "zombie", "reaped"
  exitStatus,  \* exitStatus[k]: the wait status of the child of Cmd k
  desc,        \* desc[k]: a living descendant in the group of child k:
               \*   "none", "alive", "piped" (alive and holding the output pipe)
  sent,        \* the signals the running Stop has delivered so far, in order
  cancelled,   \* the cancellable context is cancelled
  pc,          \* pc[t]: where goroutine t is
  ctx,         \* ctx[t]: the context of t's current call
  pgidOf,      \* pgidOf[t]: the local variable pgid of t's Stop or Status
  ret,         \* ret[t]: what the last call of caller t returned
  wpc,         \* wpc[k]: where the waiter goroutine of Cmd k is
  wcmd,        \* wcmd[k]: the Cmd whose Wait the waiter k entered
  lines,       \* d.Logger: m.lines of the memoryLogger
  out,         \* what the last call on the Logger was and what it returned
  written,     \* the lines written since the Logger was last empty
  room,        \* cap(m.lines) - len(m.lines): the free slots of the backing
               \*   array behind the last line
  held,        \* the first element, ss[0], of the slice the last successful
               \*   ReadLine returned, as its caller reads it
  wr,          \* the goroutine of os/exec that copies the child's output to
               \*   d.Logger: where it is in Write, and its locals
  rd,          \* a goroutine that calls ReadLine while the child writes:
               \*   where it is in ReadLine, and its locals
  got,         \* the lines that goroutine has been returned so far, and the
               \*   lines Write has evicted
  Daemons,     \* s.Daemons of the Server: the Daemon registered under a name
  made,        \* number of Daemons the Server has made with NewDaemon
  alive,       \* the Daemons of the Server whose process is running
  reply        \* the result of the last tool call

vars == <<cmd, ncmd, cmdProcess, waitCalled, mu, exitError, done, crashed,
          proc, exitStatus, desc, sent, cancelled,
          pc, ctx, pgidOf, ret, wpc, wcmd, lines, out, written, room, held,
          wr, rd, got, Daemons, made, alive, reply>>

\* The fields of the Daemon, its goroutines and its child processes.
daemon == <<cmd, ncmd, cmdProcess, waitCalled, mu, exitError, done, crashed,
            proc, exitStatus, desc, sent, cancelled,
            pc, ctx, pgidOf, ret, wpc, wcmd>>

\* The Logger of the Daemon.
logger == <<lines, out, written, room, held, wr, rd, got>>

\* The two goroutines that use the Logger at the same time.
users == <<wr, rd, got>>

\* The Server of daemonize.go and the processes of its Daemons.
registry == <<Daemons, made, alive, reply>>

handle == <<cmd, ncmd, cmdProcess, waitCalled>>

sync == <<mu, exitError, done, crashed>>

os == <<proc, exitStatus, desc>>

env == <<cancelled>>

locals == <<pc, ctx, pgidOf, ret>>

waiters == <<wpc, wcmd>>

NoReturn ==
  [op |-> "none", status |-> "none", err |-> NoError, via |-> "none", pgid |-> 0,
   sent |-> <<>>, after |-> "none"]

\* No call on the Logger yet.
NoOut ==
  [op |-> "none", p |-> <<>>, offset |-> 0, n |-> 0, err |-> NoError, ss |-> <<>>]

\* No slice returned by ReadLine is followed.  first is what the first
\* element of the slice holds, was what it held when ReadLine returned it,
\* and shared whether a Write can still store into it.
NoHeld == [first |-> <<>>, was |-> <<>>, shared |-> FALSE]

\* The copying goroutine is not in Write.
NoWrite == [pc |-> "idle", lines |-> <<>>, room |-> 0]

\* The reading goroutine is not in ReadLine.
NoRead == [pc |-> "idle", offset |-> 0, ss |-> <<>>]

\* NewDaemon, lines 167-178: no Cmd, a fresh mutex, nil exitError, an open
\* done channel, and the empty Logger of NewMemoryLogger (logger.go:14-20).
Init ==
  /\ lines = <<>>
  /\ out = NoOut
  /\ written = [seq |-> <<>>, ok |-> TRUE]
  /\ room = maxLines
  /\ held = NoHeld
  /\ wr = NoWrite
  /\ rd = NoRead
  /\ got = [ss |-> <<>>, evicted |-> {}]
  /\ Daemons = [name \in Names |-> NoDaemon]
  /\ made = 0
  /\ alive = {}
  /\ reply = "none"
  /\ cmd = NilCmd
  /\ ncmd = 0
  /\ cmdProcess = [k \in Cmds |-> FALSE]
  /\ waitCalled = [k \in Cmds |-> FALSE]
  /\ mu = Unlocked
  /\ exitError = NoError
  /\ done = FALSE
  /\ crashed = FALSE
  /\ proc = [k \in Cmds |-> "none"]
  /\ exitStatus = [k \in Cmds |-> Alive]
  /\ desc = [k \in Cmds |-> "none"]
  /\ sent = <<>>
  /\ cancelled = FALSE
  /\ pc = [t \in Threads |-> IF t \in Callers THEN "idle" ELSE "unborn"]
  /\ ctx = [t \in Threads |-> "background"]
  /\ pgidOf = [t \in Threads |-> 0]
  /\ ret = [t \in Callers |-> NoReturn]
  /\ wpc = [k \in Cmds |-> "unborn"]
  /\ wcmd = [k \in Cmds |-> 0]

----------------------------------------------------------------------------
\* The operating system

\* syscall.Getpgid(pid) succeeds while the process is not reaped.
ProcessExists(k) == proc[k] \in {"running", "zombie"}

\* kill(-pgid, sig) finds the group while it has a member.
GroupExists(k) == ProcessExists(k) \/ desc[k] # "none"

\* errors.Is(err, os.ErrProcessDone): syscall.Errno matches only the
\* os.ErrPermission, ErrExist, ErrNotExist and ErrUnsupported targets.
IsErrProcessDone(err) == err = ErrProcessDone

\* errors.Is(err, syscall.ESRCH)
IsESRCH(err) == err = ESRCH

\* The child terminates, on its own or in reaction to a signal it caught.
ChildExit(k, status) ==
  /\ ~crashed
  /\ proc[k] = "running"
  /\ proc' = [proc EXCEPT ![k] = "zombie"]
  /\ exitStatus' = [exitStatus EXCEPT ![k] = status]
  /\ UNCHANGED <<desc, sent, handle, sync, env, locals, waiters>>
  /\ UNCHANGED <<logger, registry>>

\* The child forks a descendant, which stays in the child's process group
\* and either inherits the output pipe or has redirected its output.
ChildFork(k, piped) ==
  /\ ~crashed
  /\ proc[k] = "running"
  /\ desc[k] = "none"
  /\ Cardinality({j \in Cmds : desc[j] # "none"}) < MaxDescendants
  /\ desc' = [desc EXCEPT ![k] = IF piped THEN "piped" ELSE "alive"]
  /\ UNCHANGED <<proc, exitStatus, sent, handle, sync, env, locals, waiters>>
  /\ UNCHANGED <<logger, registry>>

DescendantExit(k) ==
  /\ ~crashed
  /\ desc[k] # "none"
  /\ desc' = [desc EXCEPT ![k] = "none"]
  /\ UNCHANGED <<proc, exitStatus, sent, handle, sync, env, locals, waiters>>
  /\ UNCHANGED <<logger, registry>>

\* The owner of the cancellable context cancels it.
Cancel ==
  /\ ~crashed
  /\ ~cancelled
  /\ cancelled' = TRUE
  /\ UNCHANGED <<handle, sync, os, sent, locals, waiters>>
  /\ UNCHANGED <<logger, registry>>

\* ctx.Done() is ready
Done(c) == c = "cancellable" /\ cancelled

\* the error of syscall.Kill(-g, sig)
Kill(g) == IF GroupExists(g) THEN NoError ELSE ESRCH

\* syscall.Kill(-g, syscall.SIGKILL): every member of the group dies.
KillGroup(g) ==
  /\ proc' = [proc EXCEPT ![g] = IF @ = "running" THEN "zombie" ELSE @]
  /\ exitStatus' = [exitStatus EXCEPT ![g] = IF proc[g] = "running" THEN Signaled ELSE @]
  /\ desc' = [desc EXCEPT ![g] = "none"]
  /\ sent' = IF Kill(g) = NoError THEN Append(sent, "KILL") ELSE sent

----------------------------------------------------------------------------
\* Moving a goroutine

Goto(t, p) ==
  /\ pc' = [pc EXCEPT ![t] = p]
  /\ UNCHANGED <<ctx, pgidOf, ret>>

\* Where a goroutine goes when its call returns r.  A caller is idle again.
\* The watcher (lines 193-203) goes on to Stop after a Status that failed
\* or reported running, and ends otherwise and after Stop.
AfterReturn(t, r) ==
  IF t \in Callers THEN "idle"
  ELSE IF r.op = "Status" /\ (r.err # NoError \/ r.status = "running") THEN "stop_lock"
  ELSE "finished"

\* The call of t returns r: its locals are gone; a caller has the result,
\* the watcher only logs it.
Return(t, r) ==
  /\ pc' = [pc EXCEPT ![t] = AfterReturn(t, r)]
  /\ ret' = IF t \in Callers THEN [ret EXCEPT ![t] = [r EXCEPT !.after = ret[t].after]]
             ELSE ret
  /\ ctx' = [ctx EXCEPT ![t] = IF AfterReturn(t, r) = "stop_lock" THEN @ ELSE "background"]
  /\ pgidOf' = [pgidOf EXCEPT ![t] = 0]

\* The branches of Stop's select, lines 262-278.
Raced == {"ctx", "done", "timeout"}

\* What a Status call of the caller follows, as in TestStartStop: "start"
\* when the call before it was a Start that returned nil, "stop" when a Stop
\* returned from its select and only Status calls were made since, "none"
\* otherwise.
After(r) ==
  IF r.op = "Start" /\ r.err = NoError THEN "start"
  ELSE IF r.op = "Stop" /\ r.via \in Raced THEN "stop"
  ELSE IF r.op = "Status" /\ r.after = "stop" THEN "stop"
  ELSE "none"

StartResult(err, k) == [NoReturn EXCEPT !.op = "Start", !.err = err, !.pgid = k]

StatusResult(status, err) == [NoReturn EXCEPT !.op = "Status", !.status = status, !.err = err]

\* What Stop returns, with the branch it returned by, the group it
\* signalled and the signals it delivered.
StopResult(err, via, g) ==
  [NoReturn EXCEPT !.op = "Stop", !.err = err, !.via = via, !.pgid = g, !.sent = sent]

----------------------------------------------------------------------------
\* Start, lines 180-233

\* lines 181-186: a new Cmd, not started, is stored in d.cmd.  The Cmd it
\* replaces is out of reach of Stop and Status, and once its waiter has read
\* its wait status nothing reads that again: it is dropped.
StartAssign(t, c) ==
  /\ ~crashed
  /\ t \in Callers
  /\ pc[t] = "idle"
  /\ ncmd < MaxStarts
  /\ Cardinality({k \in Cmds : ProcessExists(k)}) < MaxLive
  /\ ncmd' = ncmd + 1
  /\ cmd' = ncmd + 1
  /\ exitStatus' = [k \in Cmds |-> IF wpc[k] \in {"close", "done"} THEN Alive
                                   ELSE exitStatus[k]]
  /\ pc' = [pc EXCEPT ![t] = "start_spawn"]
  /\ ctx' = [ctx EXCEPT ![t] = c]
  /\ ret' = [ret EXCEPT ![t] = NoReturn]
  /\ UNCHANGED <<cmdProcess, waitCalled, sync, proc, desc, sent, env, pgidOf, waiters>>
  /\ UNCHANGED <<logger, registry>>

\* A Start that goes on to start the waiter although the spawn failed.
StartSpawnAlways(t, ok) ==
  /\ ~crashed
  /\ pc[t] = "start_spawn"
  /\ cmd # NilCmd
  /\ IF cmdProcess[cmd] \/ ~ok
       THEN /\ Return(t, StartResult(<<"failed to start daemon">>, 0))
            /\ wpc' = [wpc EXCEPT ![cmd] = "begin"]
            /\ UNCHANGED <<handle, sync, os>>
       ELSE /\ cmdProcess' = [cmdProcess EXCEPT ![cmd] = TRUE]
            /\ proc' = [proc EXCEPT ![cmd] = "running"]
            /\ pc' = [pc EXCEPT ![t] = "idle", ![<<"watcher", cmd>>] = "watch_select"]
            /\ ctx' = [ctx EXCEPT ![t] = "background", ![<<"watcher", cmd>>] = ctx[t]]
            /\ ret' = [ret EXCEPT ![t] = StartResult(NoError, cmd)]
            /\ wpc' = [wpc EXCEPT ![cmd] = "begin"]
            /\ UNCHANGED <<cmd, ncmd, waitCalled, sync, exitStatus, desc, pgidOf>>
  /\ UNCHANGED <<sent, env, wcmd>>
  /\ UNCHANGED <<logger, registry>>

\* line 187, d.cmd.Start(), and lines 190-232.  ok is the operating
\* system's answer to the spawn.
StartSpawn(t, ok) ==
  /\ ~crashed
  /\ pc[t] = "start_spawn"
  /\ IF cmd = NilCmd
       THEN \* d.cmd was cleared meanwhile: nil pointer dereference
            /\ crashed' = TRUE
            /\ UNCHANGED <<handle, mu, exitError, done, os, locals, wpc>>
       ELSE IF cmdProcess[cmd] \/ ~ok
         THEN \* "exec: already started", or the spawn failed
              /\ Return(t, StartResult(<<"failed to start daemon">>, 0))
              /\ UNCHANGED <<handle, sync, os, wpc>>
         ELSE /\ cmdProcess' = [cmdProcess EXCEPT ![cmd] = TRUE]
              /\ proc' = [proc EXCEPT ![cmd] = "running"]
              /\ pc' = [pc EXCEPT ![t] = "idle", ![<<"watcher", cmd>>] = "watch_select"]
              /\ ctx' = [ctx EXCEPT ![t] = "background", ![<<"watcher", cmd>>] = ctx[t]]
              /\ ret' = [ret EXCEPT ![t] = StartResult(NoError, cmd)]
              /\ wpc' = [wpc EXCEPT ![cmd] = "begin"]
              /\ UNCHANGED <<cmd, ncmd, waitCalled, sync, exitStatus, desc, pgidOf>>
  /\ UNCHANGED <<sent, env, wcmd>>
  /\ UNCHANGED <<logger, registry>>

----------------------------------------------------------------------------
\* The waiter goroutine, lines 208-230

\* Every process that holds the write end of the output pipe is gone, so
\* the copying goroutine of os/exec sees end of file and Wait can return.
PipeClosed(k) == desc[k] # "piped"

\* line 210: d.cmd is read when the goroutine runs, then Wait is entered
WaiterBegin(k) ==
  /\ ~crashed
  /\ wpc[k] = "begin"
  /\ IF cmd = NilCmd
       THEN \* nil pointer dereference
            /\ crashed' = TRUE
            /\ UNCHANGED <<waitCalled, wpc, wcmd>>
       ELSE IF waitCalled[cmd] \/ ~cmdProcess[cmd]
         THEN \* "exec: Wait was already called" or "exec: not started":
              \* an error that is no *exec.ExitError, line 226
              /\ wpc' = [wpc EXCEPT ![k] = "close"]
              /\ UNCHANGED <<waitCalled, wcmd, crashed>>
         ELSE /\ waitCalled' = [waitCalled EXCEPT ![cmd] = TRUE]
              /\ wcmd' = [wcmd EXCEPT ![k] = cmd]
              /\ wpc' = [wpc EXCEPT ![k] = "wait"]
              /\ UNCHANGED crashed
  /\ UNCHANGED <<cmd, ncmd, cmdProcess, mu, exitError, done, os, sent, env, locals>>
  /\ UNCHANGED <<logger, registry>>

\* Wait collects the terminated child: the process is reaped
WaiterReap(k) ==
  /\ ~crashed
  /\ wpc[k] = "wait"
  /\ proc[wcmd[k]] = "zombie"
  /\ proc' = [proc EXCEPT ![wcmd[k]] = "reaped"]
  /\ wpc' = [wpc EXCEPT ![k] = "copy"]
  /\ UNCHANGED <<exitStatus, desc, sent, handle, sync, env, locals, wcmd>>
  /\ UNCHANGED <<logger, registry>>

\* The error the waiter stores for a wait status, lines 211-225: nothing for
\* a signalled child or exit code 0, the wrapped ExitError otherwise.
Recorded(status, old) ==
  IF status = Signaled THEN old
  ELSE IF status = Exited(0) THEN old
  ELSE ExitErrorOf(status[2])

\* Wait returns once the output is copied; lines 210-229.  The wait status
\* of a Cmd that Start has replaced is dropped, as in StartAssign.
WaiterRecord(k) ==
  /\ ~crashed
  /\ wpc[k] = "copy"
  /\ PipeClosed(wcmd[k])
  /\ exitError' = Recorded(exitStatus[wcmd[k]], exitError)
  /\ exitStatus' = [exitStatus EXCEPT ![wcmd[k]] = IF wcmd[k] < ncmd THEN Alive ELSE @]
  /\ wpc' = [wpc EXCEPT ![k] = "close"]
  /\ UNCHANGED <<handle, mu, done, crashed, proc, desc, sent, env, locals, wcmd>>
  /\ UNCHANGED <<logger, registry>>

\* line 209: defer close(d.done); closing a closed channel panics
WaiterClose(k) ==
  /\ ~crashed
  /\ wpc[k] = "close"
  /\ IF done
       THEN crashed' = TRUE /\ UNCHANGED <<done, wpc>>
       ELSE done' = TRUE /\ wpc' = [wpc EXCEPT ![k] = "done"] /\ UNCHANGED crashed
  /\ UNCHANGED <<handle, mu, exitError, os, sent, env, locals, wcmd>>
  /\ UNCHANGED <<logger, registry>>

----------------------------------------------------------------------------
\* d.cmd == nil || d.cmd.Process == nil, lines 248 and 282
HandleAbsent == cmd = NilCmd \/ ~cmdProcess[cmd]

\* lines 237-242
pgid ==
  IF HandleAbsent THEN [pgid |-> -1, err |-> ErrDaemonNotRunning]
  ELSE IF ProcessExists(cmd) THEN [pgid |-> cmd, err |-> NoError]
  ELSE [pgid |-> -1, err |-> ESRCH]

----------------------------------------------------------------------------
\* Status, lines 281-302

CallStatus(t) ==
  /\ ~crashed
  /\ t \in Callers
  /\ pc[t] = "idle"
  /\ pc' = [pc EXCEPT ![t] = "status_check"]
  /\ ret' = [ret EXCEPT ![t] = [NoReturn EXCEPT !.after = After(ret[t])]]
  /\ UNCHANGED <<handle, sync, os, sent, env, ctx, pgidOf, waiters>>
  /\ UNCHANGED <<logger, registry>>

\* lines 282-284
StatusCheck(t) ==
  /\ ~crashed
  /\ pc[t] = "status_check"
  /\ IF HandleAbsent
       THEN Return(t, StatusResult("stopped", NoError))
       ELSE Goto(t, "status_pgid")
  /\ UNCHANGED <<handle, sync, os, sent, env, waiters>>
  /\ UNCHANGED <<logger, registry>>

\* lines 285-293
StatusPgid(t) ==
  /\ ~crashed
  /\ pc[t] = "status_pgid"
  /\ LET r == pgid IN
       IF r.err = NoError
         THEN /\ pc' = [pc EXCEPT ![t] = "status_probe"]
              /\ pgidOf' = [pgidOf EXCEPT ![t] = r.pgid]
              /\ UNCHANGED <<ctx, ret>>
         ELSE IF IsESRCH(r.err)
           THEN Goto(t, "status_clear")
           ELSE Return(t, StatusResult("stopped", Wrap("pgid", r.err)))
  /\ UNCHANGED <<handle, sync, os, sent, env, waiters>>
  /\ UNCHANGED <<logger, registry>>

\* lines 289-290 and 296-297: d.cmd = nil
StatusClear(t) ==
  /\ ~crashed
  /\ pc[t] = "status_clear"
  /\ cmd' = NilCmd
  /\ Return(t, StatusResult("stopped", NoError))
  /\ UNCHANGED <<ncmd, cmdProcess, waitCalled, sync, os, sent, env, waiters>>
  /\ UNCHANGED <<logger, registry>>

\* lines 294-301: the null signal to the group
StatusProbe(t) ==
  /\ ~crashed
  /\ pc[t] = "status_probe"
  /\ LET err == Kill(pgidOf[t]) IN
       IF err = NoError
         THEN Return(t, StatusResult("running", NoError))
         ELSE IF IsErrProcessDone(err)
           THEN Goto(t, "status_clear")
           ELSE Return(t, StatusResult("stopped", Wrap("is not running", err)))
  /\ UNCHANGED <<handle, sync, os, sent, env, waiters>>
  /\ UNCHANGED <<logger, registry>>

----------------------------------------------------------------------------
\* Stop, lines 244-279

\* The waiter that waited for Cmd c has stored the error of its exit in
\* d.exitError, line 223.
RecordedFor(c) ==
  /\ c # NilCmd
  /\ exitStatus[c] \notin {Alive, Signaled, Exited(0)}
  /\ \E k \in Cmds : wcmd[k] = c /\ wpc[k] \in {"close", "done"}

\* What a Stop call of the caller follows: "error" when the call before it
\* was a Start that returned nil and the waiter has since recorded the
\* error of that child's exit, "none" otherwise.
AfterError(r) ==
  IF After(r) = "start" /\ RecordedFor(cmd) THEN "error" ELSE "none"

CallStop(t, c) ==
  /\ ~crashed
  /\ t \in Callers
  /\ pc[t] = "idle"
  /\ pc' = [pc EXCEPT ![t] = "stop_lock"]
  /\ ctx' = [ctx EXCEPT ![t] = c]
  /\ ret' = [ret EXCEPT ![t] = [NoReturn EXCEPT !.after = AfterError(ret[t])]]
  /\ UNCHANGED <<handle, sync, os, sent, env, pgidOf, waiters>>
  /\ UNCHANGED <<logger, registry>>

\* A Stop that does not wait for the mutex.
StopLockNoWait(t) ==
  /\ ~crashed
  /\ pc[t] = "stop_lock"
  /\ mu' = t
  /\ Goto(t, "stop_check")
  /\ UNCHANGED <<handle, exitError, done, crashed, os, sent, env, waiters>>
  /\ UNCHANGED <<logger, registry>>

\* line 245: d.mu.Lock()
StopLock(t) ==
  /\ ~crashed
  /\ pc[t] = "stop_lock"
  /\ mu = Unlocked
  /\ mu' = t
  /\ Goto(t, "stop_check")
  /\ UNCHANGED <<handle, exitError, done, crashed, os, sent, env, waiters>>
  /\ UNCHANGED <<logger, registry>>

\* A Stop that tests only d.cmd == nil before it goes on.
StopCheckNilOnly(t) ==
  /\ ~crashed
  /\ pc[t] = "stop_check"
  /\ IF cmd = NilCmd
       THEN /\ Return(t, StopResult(ErrDaemonNotRunning, "check", 0))
            /\ mu' = Unlocked
       ELSE /\ Goto(t, "stop_pgid")
            /\ UNCHANGED mu
  /\ UNCHANGED <<handle, exitError, done, crashed, os, sent, env, waiters>>
  /\ UNCHANGED <<logger, registry>>

\* lines 246-250; the deferred Unlock runs on return
StopCheck(t) ==
  /\ ~crashed
  /\ pc[t] = "stop_check"
  /\ IF HandleAbsent
       THEN /\ Return(t, StopResult(ErrDaemonNotRunning, "check", 0))
            /\ mu' = Unlocked
       ELSE /\ Goto(t, "stop_pgid")
            /\ UNCHANGED mu
  /\ UNCHANGED <<handle, exitError, done, crashed, os, sent, env, waiters>>
  /\ UNCHANGED <<logger, registry>>

\* A Stop that reports a failed group id resolution as "not running".
StopPgidNotRunning(t) ==
  /\ ~crashed
  /\ pc[t] = "stop_pgid"
  /\ LET r == pgid IN
       IF r.err # NoError
         THEN /\ Return(t, StopResult(ErrDaemonNotRunning, "pgid", 0))
              /\ mu' = Unlocked
         ELSE /\ pc' = [pc EXCEPT ![t] = "stop_signal"]
              /\ pgidOf' = [pgidOf EXCEPT ![t] = r.pgid]
              /\ UNCHANGED <<ctx, ret, mu>>
  /\ UNCHANGED <<handle, exitError, done, crashed, os, sent, env, waiters>>
  /\ UNCHANGED <<logger, registry>>

\* lines 252-255
StopPgid(t) ==
  /\ ~crashed
  /\ pc[t] = "stop_pgid"
  /\ LET r == pgid IN
       IF r.err # NoError
         THEN /\ Return(t, StopResult(Wrap("pgid", r.err), "pgid", 0))
              /\ mu' = Unlocked
         ELSE /\ pc' = [pc EXCEPT ![t] = "stop_signal"]
              /\ pgidOf' = [pgidOf EXCEPT ![t] = r.pgid]
              /\ UNCHANGED <<ctx, ret, mu>>
  /\ UNCHANGED <<handle, exitError, done, crashed, os, sent, env, waiters>>
  /\ UNCHANGED <<logger, registry>>

\* lines 257-262: SIGINT to the group, then the select is entered
StopSignal(t) ==
  /\ ~crashed
  /\ pc[t] = "stop_signal"
  /\ LET g == pgidOf[t]
         err == Kill(g) IN
       IF err # NoError /\ ~IsErrProcessDone(err)
         THEN /\ Return(t, StopResult(Wrap("sigterm", err), "signal", g))
              /\ mu' = Unlocked
              /\ UNCHANGED sent
         ELSE /\ sent' = IF err = NoError THEN <<"INT">> ELSE <<>>
              /\ Goto(t, "stop_select")
              /\ UNCHANGED mu
  /\ UNCHANGED <<handle, exitError, done, crashed, os, cancelled, waiters>>
  /\ UNCHANGED <<logger, registry>>

\* lines 263-265
StopSelectCtx(t) ==
  /\ ~crashed
  /\ pc[t] = "stop_select"
  /\ Done(ctx[t])
  /\ KillGroup(pgidOf[t])
  /\ Goto(t, "stop_ctx_wait")
  /\ UNCHANGED <<handle, sync, cancelled, waiters>>
  /\ UNCHANGED <<logger, registry>>

\* lines 266-268
StopCtxWait(t) ==
  /\ ~crashed
  /\ pc[t] = "stop_ctx_wait"
  /\ done
  /\ Return(t, StopResult(ErrCanceled, "ctx", pgidOf[t]))
  /\ mu' = Unlocked
  /\ sent' = <<>>
  /\ UNCHANGED <<handle, exitError, done, crashed, os, env, waiters>>
  /\ UNCHANGED <<logger, registry>>

\* lines 269-273
StopSelectDone(t) ==
  /\ ~crashed
  /\ pc[t] = "stop_select"
  /\ done
  /\ Return(t, StopResult(exitError, "done", pgidOf[t]))
  /\ mu' = Unlocked
  /\ sent' = <<>>
  /\ UNCHANGED <<handle, exitError, done, crashed, os, cancelled, waiters>>
  /\ UNCHANGED <<logger, registry>>

\* lines 274-275: the grace period of time.After has elapsed
StopSelectTimeout(t) ==
  /\ ~crashed
  /\ pc[t] = "stop_select"
  /\ KillGroup(pgidOf[t])
  /\ Goto(t, "stop_timeout_wait")
  /\ UNCHANGED <<handle, sync, cancelled, waiters>>
  /\ UNCHANGED <<logger, registry>>

\* lines 276-277
StopTimeoutWait(t) ==
  /\ ~crashed
  /\ pc[t] = "stop_timeout_wait"
  /\ done
  /\ Return(t, StopResult(ErrTimeout, "timeout", pgidOf[t]))
  /\ mu' = Unlocked
  /\ sent' = <<>>
  /\ UNCHANGED <<handle, exitError, done, crashed, os, env, waiters>>
  /\ UNCHANGED <<logger, registry>>

----------------------------------------------------------------------------
\* The watcher goroutine, lines 190-207

\* lines 192-193: the context of Start is cancelled; Status is called
WatchSelectCtx(k) ==
  /\ ~crashed
  /\ pc[<<"watcher", k>>] = "watch_select"
  /\ Done(ctx[<<"watcher", k>>])
  /\ Goto(<<"watcher", k>>, "status_check")
  /\ UNCHANGED <<handle, sync, os, sent, env, waiters>>
  /\ UNCHANGED <<logger, registry>>

\* lines 204-205
WatchSelectDone(k) ==
  /\ ~crashed
  /\ pc[<<"watcher", k>>] = "watch_select"
  /\ done
  /\ pc' = [pc EXCEPT ![<<"watcher", k>>] = "finished"]
  /\ ctx' = [ctx EXCEPT ![<<"watcher", k>>] = "background"]
  /\ UNCHANGED <<pgidOf, ret, handle, sync, os, sent, env, waiters>>
  /\ UNCHANGED <<logger, registry>>

----------------------------------------------------------------------------
\* The memoryLogger, logger.go

\* The line Write keeps for the chunk p, logger.go:28-31: p without one
\* trailing newline.
Line(p) ==
  IF Len(p) > 0 /\ p[Len(p)] = "\n" THEN SubSeq(p, 1, Len(p) - 1) ELSE p

\* The capacity append gives the new backing array when a slice of capacity
\* c is full: the runtime at least doubles a small slice.
Grow(c) == IF c = 0 THEN 1 ELSE 2 * c

\* append(m.lines, line), logger.go:32, in memory.  With a free slot the
\* line is stored in place, behind the last line: that slot is the first
\* element of the slice ReadLine returned, if no Write came since.  Without a
\* free slot the lines move to a new array and the old one is written no
\* more.  The returned slice is followed until a Write has altered its
\* first element or no Write can reach that any more.
Store(line) ==
  IF room > 0
    THEN /\ room' = room - 1
         /\ held' = IF ~held.shared THEN held
                    ELSE IF line # held.was
                      THEN [held EXCEPT !.first = line, !.shared = FALSE]
                      ELSE NoHeld
    ELSE /\ room' = Grow(Len(lines)) - (Len(lines) + 1)
         /\ held' = IF held.shared THEN NoHeld ELSE held

\* ss = m.lines[offset:]; m.lines = m.lines[:offset], logger.go:46-47, in
\* memory: both slices share the backing array, ss begins where m.lines now
\* ends, and its slots are free slots of m.lines again.
Take(offset) ==
  /\ room' = room + (Len(lines) - offset)
  /\ held' = [first |-> lines[offset + 1], was |-> lines[offset + 1], shared |-> TRUE]

\* A Write that never evicts.
WriteNoEvict(p) ==
  /\ Len(written.seq) < MaxWritten
  /\ lines' = Append(lines, Line(p))
  /\ written' = IF written.ok THEN [written EXCEPT !.seq = Append(@, Line(p))]
                 ELSE written
  /\ out' = [NoOut EXCEPT !.op = "Write", !.p = p, !.n = Len(p)]
  /\ Store(Line(p))
  /\ UNCHANGED <<daemon, users, registry>>

\* A Write that strips a second trailing newline too.
WriteTrimAll(p) ==
  /\ Len(written.seq) < MaxWritten
  /\ LET appended == Append(lines, Line(Line(p)))
     IN /\ lines' = IF Len(appended) > maxLines THEN Tail(appended) ELSE appended
        /\ written' = IF written.ok THEN [written EXCEPT !.seq = Append(@, Line(p))]
                       ELSE written
  /\ out' = [NoOut EXCEPT !.op = "Write", !.p = p, !.n = Len(p)]
  /\ Store(Line(p))
  /\ UNCHANGED <<daemon, users, registry>>

\* A Write that drops the new line, not the oldest, when the buffer is full.
WriteEvictNewest(p) ==
  /\ Len(written.seq) < MaxWritten
  /\ lines' = IF Len(lines) + 1 > maxLines THEN lines ELSE Append(lines, Line(p))
  /\ written' = IF written.ok THEN [written EXCEPT !.seq = Append(@, Line(p))]
                 ELSE written
  /\ out' = [NoOut EXCEPT !.op = "Write", !.p = p, !.n = Len(p)]
  /\ Store(Line(p))
  /\ UNCHANGED <<daemon, users, registry>>

\* Write, logger.go:27-37.  written follows what the buffer has been given
\* since it was last empty, as long as only Write was called since.
Write(p) ==
  /\ Len(written.seq) < MaxWritten
  /\ LET appended == Append(lines, Line(p))
     IN /\ lines' = IF Len(appended) > maxLines THEN Tail(appended) ELSE appended
        /\ written' = IF written.ok THEN [written EXCEPT !.seq = Append(@, Line(p))]
                       ELSE written
  /\ out' = [NoOut EXCEPT !.op = "Write", !.p = p, !.n = Len(p)]
  /\ Store(Line(p))
  /\ UNCHANGED <<daemon, users, registry>>

\* A ReadLine that returns the lines and keeps them in the buffer.
ReadLineKeep(offset) ==
  /\ IF offset < 0 \/ offset >= Len(lines)
       THEN out' = [NoOut EXCEPT !.op = "ReadLine", !.offset = offset, !.err = EOF]
       ELSE out' = [NoOut EXCEPT !.op = "ReadLine", !.offset = offset,
                                 !.ss = SubSeq(lines, offset + 1, Len(lines))]
  /\ UNCHANGED <<lines, written, room, held, daemon, users, registry>>

\* A ReadLine that accepts the offset just past the last line.
ReadLineOffByOne(offset) ==
  /\ IF offset < 0 \/ offset > Len(lines)
       THEN /\ out' = [NoOut EXCEPT !.op = "ReadLine", !.offset = offset, !.err = EOF]
            /\ UNCHANGED <<lines, written, room, held>>
       ELSE /\ out' = [NoOut EXCEPT !.op = "ReadLine", !.offset = offset,
                                    !.ss = SubSeq(lines, offset + 1, Len(lines))]
            /\ lines' = SubSeq(lines, 1, offset)
            /\ written' = [seq |-> <<>>, ok |-> (offset = 0)]
            /\ IF offset < Len(lines) THEN Take(offset)
               ELSE UNCHANGED <<room, held>>
  /\ UNCHANGED <<daemon, users, registry>>

\* ReadLine, logger.go:39-49.  The second test of the offset, lines 43-45,
\* repeats a case of the first and is never taken.
ReadLine(offset) ==
  /\ IF offset < 0 \/ offset >= Len(lines)
       THEN /\ out' = [NoOut EXCEPT !.op = "ReadLine", !.offset = offset, !.err = EOF]
            /\ UNCHANGED <<lines, written, room, held>>
       ELSE /\ out' = [NoOut EXCEPT !.op = "ReadLine", !.offset = offset,
                                    !.ss = SubSeq(lines, offset + 1, Len(lines))]
            /\ lines' = SubSeq(lines, 1, offset)
            /\ written' = [seq |-> <<>>, ok |-> (offset = 0)]
            /\ Take(offset)
  /\ UNCHANGED <<daemon, users, registry>>

\* Lines, logger.go:51-53
Lines ==
  /\ out' = [NoOut EXCEPT !.op = "Lines", !.n = Len(lines)]
  /\ UNCHANGED <<lines, written, room, held, daemon, users, registry>>

\* Close, logger.go:55-57
Close ==
  /\ out' = [NoOut EXCEPT !.op = "Close"]
  /\ UNCHANGED <<lines, written, room, held, daemon, users, registry>>

----------------------------------------------------------------------------
Next ==
  \/ \E t \in Callers, c \in Contexts : StartAssign(t, c)
  \/ \E t \in Callers, ok \in BOOLEAN : StartSpawn(t, ok)
  \/ \E k \in Cmds : WaiterBegin(k)
  \/ \E k \in Cmds : WaiterReap(k)
  \/ \E k \in Cmds : WaiterRecord(k)
  \/ \E k \in Cmds : WaiterClose(k)
  \/ \E k \in Cmds : WatchSelectCtx(k)
  \/ \E k \in Cmds : WatchSelectDone(k)
  \/ \E t \in Callers : CallStatus(t)
  \/ \E t \in Threads : StatusCheck(t)
  \/ \E t \in Threads : StatusPgid(t)
  \/ \E t \in Threads : StatusClear(t)
  \/ \E t \in Threads : StatusProbe(t)
  \/ \E t \in Callers, c \in Contexts : CallStop(t, c)
  \/ \E t \in Threads : StopLock(t)
  \/ \E t \in Threads : StopCheck(t)
  \/ \E t \in Threads : StopPgid(t)
  \/ \E t \in Threads : StopSignal(t)
  \/ \E t \in Threads : StopSelectCtx(t)
  \/ \E t \in Threads : StopCtxWait(t)
  \/ \E t \in Threads : StopSelectDone(t)
  \/ \E t \in Threads : StopSelectTimeout(t)
  \/ \E t \in Threads : StopTimeoutWait(t)
  \/ \E k \in Cmds, s \in WaitStatuses : ChildExit(k, s)
  \/ \E k \in Cmds, piped \in BOOLEAN : ChildFork(k, piped)
  \/ \E k \in Cmds : DescendantExit(k)
  \/ Cancel

Spec == Init /\ [][Next]_vars

\* The calls on the Logger of a Daemon, made one at a time.
NextLogger ==
  \/ \E p \in Chunks : Write(p)
  \/ \E offset \in Offsets : ReadLine(offset)
  \/ Lines
  \/ Close

SpecLogger == Init /\ [][NextLogger]_vars

----------------------------------------------------------------------------
\* The memoryLogger used by two goroutines at once.  Start gives d.Logger to
\* the child as Stdout and Stderr (daemon.go:183-184), so one goroutine of
\* os/exec calls Write for the child's output while a caller of the Daemon
\* calls ReadLine.  The memoryLogger has no lock: the reads and writes of
\* m.lines in the two methods interleave.

\* The i-th chunk the child prints: a numbered line.
Printed(i) == <<ToString(i), "\n">>

\* logger.go:32, the right-hand side: m.lines is read
WriterLoad ==
  /\ wr.pc = "idle"
  /\ Len(written.seq) < MaxWritten
  /\ wr' = [pc |-> "loaded", lines |-> lines, room |-> room]
  /\ UNCHANGED <<lines, out, written, room, held, rd, got, daemon, registry>>

\* logger.go:32, the assignment: the slice that was read, with the line
\* appended, is stored in m.lines
WriterStore ==
  /\ wr.pc = "loaded"
  /\ lines' = Append(wr.lines, Line(Printed(Len(written.seq) + 1)))
  /\ room' = IF wr.room > 0 THEN wr.room - 1
             ELSE Grow(Len(wr.lines)) - (Len(wr.lines) + 1)
  /\ wr' = [NoWrite EXCEPT !.pc = "stored"]
  /\ UNCHANGED <<out, written, held, rd, got, daemon, registry>>

\* logger.go:33-36: the oldest line is dropped beyond maxLines, and Write
\* returns
WriterEvict ==
  /\ wr.pc = "stored"
  /\ lines' = IF Len(lines) > maxLines THEN Tail(lines) ELSE lines
  /\ got' = IF Len(lines) > maxLines THEN [got EXCEPT !.evicted = @ \cup {Head(lines)}]
            ELSE got
  /\ written' = [written EXCEPT !.seq = Append(@, Line(Printed(Len(written.seq) + 1)))]
  /\ out' = [NoOut EXCEPT !.op = "Write", !.p = Printed(Len(written.seq) + 1), !.n = 2]
  /\ wr' = NoWrite
  /\ UNCHANGED <<room, held, rd, daemon, registry>>

\* logger.go:40-45: the offset is tested against len(m.lines)
ReaderCheck(offset) ==
  /\ rd.pc = "idle"
  /\ IF offset < 0 \/ offset >= Len(lines)
       THEN /\ out' = [NoOut EXCEPT !.op = "ReadLine", !.offset = offset, !.err = EOF]
            /\ UNCHANGED rd
       ELSE /\ rd' = [NoRead EXCEPT !.pc = "checked", !.offset = offset]
            /\ UNCHANGED out
  /\ UNCHANGED <<lines, written, room, held, wr, got, daemon, registry>>

\* logger.go:46: ss = m.lines[offset:]
ReaderSlice ==
  /\ rd.pc = "checked"
  /\ rd' = [rd EXCEPT !.pc = "sliced", !.ss = SubSeq(lines, rd.offset + 1, Len(lines))]
  /\ UNCHANGED <<lines, out, written, room, held, wr, got, daemon, registry>>

\* logger.go:47-48: m.lines = m.lines[:offset], and ReadLine returns ss
ReaderTrunc ==
  /\ rd.pc = "sliced"
  /\ lines' = SubSeq(lines, 1, rd.offset)
  /\ room' = room + (Len(lines) - rd.offset)
  /\ got' = [got EXCEPT !.ss = @ \o rd.ss]
  /\ out' = [NoOut EXCEPT !.op = "ReadLine", !.offset = rd.offset, !.ss = rd.ss]
  /\ rd' = NoRead
  /\ UNCHANGED <<written, held, wr, daemon, registry>>

NextConcurrent ==
  \/ WriterLoad
  \/ WriterStore
  \/ WriterEvict
  \/ \E offset \in Offsets : ReaderCheck(offset)
  \/ ReaderSlice
  \/ ReaderTrunc

SpecConcurrent == Init /\ [][NextConcurrent]_vars

----------------------------------------------------------------------------
\* The tools of the Server, daemonize.go:72-175, called one at a time

\* The process of a Daemon of the Server ends by itself.
ProcessExit(d) ==
  /\ d \in alive
  /\ alive' = alive \ {d}
  /\ reply' = "none"
  /\ UNCHANGED <<Daemons, made, daemon, logger>>

\* daemonize_start, daemonize.go:72-99: a new Daemon is made and started,
\* and on success stored under its name, whatever was stored there.  ok is
\* whether Daemon.Start succeeded.
ToolStart(name, ok) ==
  /\ made < MaxDaemons
  /\ made' = made + 1
  /\ IF ok
       THEN /\ alive' = alive \cup {made + 1}
            /\ Daemons' = [Daemons EXCEPT ![name] = made + 1]
            /\ reply' = "Daemon started successfully"
       ELSE /\ reply' = "failed to start daemon"
            /\ UNCHANGED <<Daemons, alive>>
  /\ UNCHANGED <<daemon, logger>>

\* What Daemon.Status can answer for the Daemon d: Running while its process
\* runs; afterwards Stopped, an error, or still Running until the process
\* is reaped.
StatusAnswers(d) ==
  IF d \in alive THEN {"running"} ELSE {"running", "stopped", "error"}

\* daemonize_stop, daemonize.go:100-122.  status is the answer of
\* Daemon.Status, failed whether Daemon.Stop returned an error; Stop ends
\* the process in either case.
ToolStop(name, status, failed) ==
  /\ IF Daemons[name] = NoDaemon
       THEN /\ reply' = "daemon not found"
            /\ UNCHANGED <<Daemons, alive>>
       ELSE /\ status \in StatusAnswers(Daemons[name])
            /\ IF status = "error"
                 THEN /\ reply' = "failed to stop daemon"
                      /\ UNCHANGED <<Daemons, alive>>
                 ELSE IF status # "running"
                   THEN /\ Daemons' = [Daemons EXCEPT ![name] = NoDaemon]
                        /\ reply' = "Daemon already stopped"
                        /\ UNCHANGED alive
                   ELSE /\ alive' = alive \ {Daemons[name]}
                        /\ IF failed
                             THEN /\ reply' = "failed to stop daemon"
                                  /\ UNCHANGED Daemons
                             ELSE /\ Daemons' = [Daemons EXCEPT ![name] = NoDaemon]
                                  /\ reply' = "Daemon stopped successfully"
  /\ UNCHANGED <<made, daemon, logger>>

\* daemonize_list, daemonize.go:123-140
ToolList ==
  /\ reply' = IF \A name \in Names : Daemons[name] = NoDaemon THEN "No daemons running"
              ELSE "Running daemons"
  /\ UNCHANGED <<Daemons, made, alive, daemon, logger>>

\* daemonize_logs, daemonize.go:141-175
ToolLogs(name) ==
  /\ reply' = IF Daemons[name] = NoDaemon THEN "daemon not found" ELSE "Daemon logs"
  /\ UNCHANGED <<Daemons, made, alive, daemon, logger>>

NextServer ==
  \/ \E name \in Names, ok \in BOOLEAN : ToolStart(name, ok)
  \/ \E name \in Names, status \in {"running", "stopped", "error"}, failed \in BOOLEAN :
       ToolStop(name, status, failed)
  \/ ToolList
  \/ \E name \in Names : ToolLogs(name)
  \/ \E d \in DaemonIds : ProcessExit(d)

SpecServer == Init /\ [][NextServer]_vars

----------------------------------------------------------------------------
\* Properties of Start, Stop and Status

\* The goroutine t is in Stop past d.mu.Lock().
InStop(t) ==
  pc[t] \in {"stop_check", "stop_pgid", "stop_signal", "stop_select",
             "stop_ctx_wait", "stop_timeout_wait"}

\* C1: a Status call made right after a successful Start, with no other
\* call of the caller in between, reports Running with no error.  A child
\* that has already exited and been reaped by the waiter is left aside: for
\* it Status may report Stopped, with no error, with the error of the null
\* signal, or with "pgid: daemon not running".
C1_RunningUnlessReaped ==
  \A t \in Callers :
    (ret[t].op = "Status" /\ ret[t].after = "start") =>
      \/ ret[t].status = "running" /\ ret[t].err = NoError
      \/ /\ ret[t].status = "stopped"
         /\ ret[t].err \in {NoError, Wrap("is not running", ESRCH),
                            Wrap("pgid", ErrDaemonNotRunning)}
         /\ proc[ncmd] = "reaped"

\* C1 happens: Status right after a successful Start has reported Running.
C1_Witness ==
  \E t \in Callers :
    /\ ret[t].op = "Status" /\ ret[t].after = "start"
    /\ ret[t].status = "running" /\ ret[t].err = NoError

\* C2: once a Stop that went through its select has returned, every Status
\* call reports Stopped with no error until Start is called again.
C2_StoppedAfterStop ==
  \A t \in Callers :
    (ret[t].op = "Status" /\ ret[t].after = "stop") =>
      (ret[t].status = "stopped" /\ ret[t].err = NoError)

\* C3: a Stop that finds no process handle returns ErrDaemonNotRunning,
\* delivers no signal, releases the mutex and changes no field of the
\* Daemon and nothing of the child processes.
C3_StopNotRunning ==
  [][\A t \in Threads :
       (pc[t] = "stop_check" /\ HandleAbsent /\ pc'[t] # pc[t]) =>
         /\ pc'[t] \in {"idle", "finished"}
         /\ (t \in Callers) =>
              /\ ret'[t].op = "Stop"
              /\ ret'[t].err = ErrDaemonNotRunning
              /\ ret'[t].sent = <<>>
         /\ sent = <<>> /\ sent' = <<>>
         /\ mu' = Unlocked
         /\ UNCHANGED <<handle, exitError, done, crashed, os>>]_vars

\* C3 happens: Stop has returned ErrDaemonNotRunning after a Status call
\* cleared the handle of a dead child.
C3_Witness ==
  \E t \in Callers :
    /\ ret[t].op = "Stop" /\ ret[t].via = "check"
    /\ ret[t].err = ErrDaemonNotRunning
    /\ ncmd > 0 /\ cmd = NilCmd

\* C4: when Stop has returned from its select, the group was sent a
\* termination signal and the waiter of the child it stopped has completed,
\* the child being reaped.
C4_SignalledAndReaped ==
  \A t \in Callers :
    (ret[t].op = "Stop" /\ ret[t].via \in Raced) =>
      /\ Len(ret[t].sent) >= 1
      /\ wpc[ret[t].pgid] = "done"
      /\ proc[ret[t].pgid] = "reaped"

\* C5: when Stop returns by the done branch of its select, it returns nil
\* if the child was killed by a signal or exited with code 0, and the error
\* carrying the exit code if the child exited with another code.
C5_DoneOutcome ==
  \A t \in Callers :
    (ret[t].op = "Stop" /\ ret[t].via = "done") =>
      LET s == exitStatus[ret[t].pgid] IN
        /\ s # Alive
        /\ ret[t].err = IF s \in {Signaled, Exited(0)} THEN NoError
                        ELSE ExitErrorOf(s[2])

\* C6: Stop leaves its select by the done branch only when the child has
\* exited; when it leaves by the grace period it has sent SIGINT first,
\* returns "graceful shutdown timed out", and the waiter has completed.
C6_TimeoutPath ==
  \A t \in Callers :
    /\ (ret[t].op = "Stop" /\ ret[t].via = "done") =>
         proc[ret[t].pgid] = "reaped"
    /\ (ret[t].op = "Stop" /\ ret[t].via = "timeout") =>
         /\ ret[t].err = ErrTimeout
         /\ ret[t].sent \in {<<"INT">>, <<"INT", "KILL">>}
         /\ wpc[ret[t].pgid] = "done"

\* C7: when Stop leaves its select by the cancellation of its context, it
\* has sent SIGINT first, returns the context's error, and the waiter has
\* completed before it returns.
C7_CancelPath ==
  \A t \in Callers :
    (ret[t].op = "Stop" /\ ret[t].via = "ctx") =>
      /\ ret[t].err = ErrCanceled
      /\ ret[t].sent \in {<<"INT">>, <<"INT", "KILL">>}
      /\ wpc[ret[t].pgid] = "done"

\* C8: when Stop returns nil, no descendant of the child is left in the
\* child's process group.
C8_DescendantTerminated ==
  \A t \in Callers :
    (ret[t].op = "Stop" /\ ret[t].err = NoError) => desc[ret[t].pgid] = "none"

\* C9: at most one goroutine is in Stop past the lock, it holds d.mu, and
\* so every other Stop stays at d.mu.Lock() until it has returned.
C9_StopMutex ==
  \A t \in Threads :
    InStop(t) => (mu = t /\ \A u \in Threads : InStop(u) => u = t)

\* C9 happens: one goroutine is in the select of Stop while another has
\* called Stop and waits for the mutex.
C9_Witness ==
  \E t, u \in Threads : t # u /\ pc[t] = "stop_select" /\ pc[u] = "stop_lock"

\* C10: after a restart, a Stop that went through its select has signalled
\* the group of the new child and returns only when the waiter started by
\* the last Start has completed.
C10_RestartedStop ==
  \A t \in Callers :
    (ret[t].op = "Stop" /\ ret[t].via \in Raced /\ ncmd > 1) =>
      /\ ret[t].pgid = ncmd
      /\ ret[t].sent # <<>>
      /\ waitCalled[ncmd]
      /\ wpc[ncmd] = "done"

\* C11: cancelling the context of Start leaves the child alone and only
\* makes the watcher call Stop, so the watcher stays at its select until the
\* context is cancelled or the waiter of its child has completed: it leaves
\* by the done branch only when that waiter has completed.
C11_WatcherWaits ==
  [][\A k \in Cmds :
       (pc[<<"watcher", k>>] = "watch_select" /\ pc'[<<"watcher", k>>] = "finished") =>
         wpc[k] = "done"]_vars

\* The step of t returns from Status with (Stopped, nil): a caller has that
\* result, the watcher ends without calling Stop (lines 195-197).
ReportsStopped(t) ==
  IF t \in Callers
    THEN pc'[t] = "idle" /\ ret'[t].op = "Status"
         /\ ret'[t].status = "stopped" /\ ret'[t].err = NoError
    ELSE pc'[t] = "finished"

\* C12: Status self-heals.  Where it finds no handle it reports Stopped
\* with no error; where it finds a handle whose process no longer exists it
\* clears that handle, and no other, and reports Stopped with no error.
C12_StatusSelfHeals ==
  [][\A t \in Threads :
       /\ (pc[t] = "status_check" /\ HandleAbsent /\ pc'[t] # pc[t]) =>
            (ReportsStopped(t) /\ cmd' = cmd)
       /\ (pc[t] = "status_pgid" /\ pc'[t] # pc[t]
             /\ (HandleAbsent \/ ~ProcessExists(cmd))) =>
            (pc'[t] = "status_clear" \/ ReportsStopped(t))
       /\ (pc[t] = "status_clear" /\ pc'[t] # pc[t]) =>
            /\ cmd = NilCmd \/ ~ProcessExists(cmd)
            /\ cmd' = NilCmd
            /\ ReportsStopped(t)]_vars

\* C13: when the spawn fails, Start returns the error and no more: while
\* that is the caller's last result, the Daemon has no process handle (so
\* Status reports Stopped and Stop returns ErrDaemonNotRunning), and the
\* Cmd has no child, no waiter and no watcher.
C13_SpawnFailure ==
  \A t \in Callers :
    (ret[t].op = "Start" /\ ret[t].err # NoError) =>
      /\ HandleAbsent
      /\ pc[t] = "idle"
      /\ proc[ncmd] = "none"
      /\ wpc[ncmd] = "unborn"
      /\ pc[<<"watcher", ncmd>>] = "unborn"

\* C13 happens: a Start that follows an earlier Start has failed to spawn.
C13_Witness ==
  \E t \in Callers :
    ret[t].op = "Start" /\ ret[t].err # NoError /\ ncmd > 1 /\ cmd = ncmd

----------------------------------------------------------------------------
\* Properties of the memoryLogger

\* C14: the buffer never holds more lines than the cap, and Lines() never
\* returns more than the cap.
C14_AtMostCap ==
  /\ Len(lines) <= maxLines
  /\ out.op = "Lines" => out.n <= maxLines

\* C14 happens: more lines than the cap were written to the empty buffer
\* and Lines() was called on the full buffer.
C14_Witness ==
  written.ok /\ Len(written.seq) > maxLines /\ out.op = "Lines" /\ out.n = maxLines

\* C15: Write(p) returns len(p) and no error; it appends one line, p
\* without at most one trailing newline, and when that makes the buffer
\* longer than the cap it drops the oldest line and keeps the others in order.
C15_WriteAppends ==
  [][out'.op = "Write" =>
       LET p == out'.p
           line == IF p # <<>> /\ p[Len(p)] = "\n" THEN SubSeq(p, 1, Len(p) - 1) ELSE p
       IN /\ out'.n = Len(p) /\ out'.err = NoError
          /\ lines' = IF Len(lines) < maxLines THEN lines \o <<line>>
                      ELSE SubSeq(lines, 2, Len(lines)) \o <<line>>]_vars

\* C15 happens: a chunk of two newlines was written to the full buffer and
\* is kept as the line of one newline, the oldest line being dropped.
C15_Witness ==
  /\ out.op = "Write" /\ out.p = <<"\n", "\n">> /\ out.n = 2
  /\ written.ok /\ Len(written.seq) > maxLines
  /\ Len(lines) = maxLines /\ lines[maxLines] = <<"\n">>

\* C16: ReadLine(offset) with 0 <= offset < line count returns the lines
\* from offset to the end, in order, and the buffer keeps exactly the lines
\* before offset.
C16_ReadLineTakes ==
  [][(out'.op = "ReadLine" /\ 0 <= out'.offset /\ out'.offset < Len(lines)) =>
       /\ out'.err = NoError
       /\ out'.ss = [i \in 1..(Len(lines) - out'.offset) |-> lines[out'.offset + i]]
       /\ lines' = [i \in 1..out'.offset |-> lines[i]]
       /\ Len(lines') = out'.offset]_vars

\* C16 happens: ReadLine(1) on a buffer of three lines returned two lines
\* and left one.
C16_Witness ==
  /\ out.op = "ReadLine" /\ out.offset = 1 /\ out.err = NoError
  /\ Len(out.ss) = 2 /\ Len(lines) = 1

\* C17: ReadLine(offset) with offset < 0 or offset >= line count returns
\* io.EOF and no lines, and leaves the buffer as it was.
C17_ReadLineEOF ==
  [][(out'.op = "ReadLine" /\ (out'.offset < 0 \/ out'.offset >= Len(lines))) =>
       /\ out'.err = EOF
       /\ out'.ss = <<>>
       /\ lines' = lines]_vars

\* C17 happens: a negative offset failed on a buffer that holds lines.
C17_Witness ==
  out.op = "ReadLine" /\ out.offset < 0 /\ out.err = EOF /\ lines # <<>>

\* C18, as stated: after N >= 1 lines were written to the empty buffer,
\* ReadLine(0) returns exactly those N lines in the order written and leaves
\* the buffer empty, and the next ReadLine(0) returns io.EOF.
C18_ReadsAllWritten ==
  [][(out'.op = "ReadLine" /\ out'.offset = 0) =>
       /\ (written.ok /\ Len(written.seq) >= 1) =>
            /\ out'.err = NoError
            /\ out'.ss = written.seq
            /\ lines' = <<>>
       /\ (out.op = "ReadLine" /\ out.offset = 0 /\ out.err = NoError) =>
            out'.err = EOF]_vars

\* C18, amended: after N >= 1 lines were written to the empty buffer,
\* ReadLine(0) returns the last min(N, cap) of them in the order written
\* (all N only when N <= cap) and leaves the buffer empty, and the next
\* ReadLine(0) returns io.EOF.
C18_ReadsLastWritten ==
  [][(out'.op = "ReadLine" /\ out'.offset = 0) =>
       /\ (written.ok /\ Len(written.seq) >= 1) =>
            LET N == Len(written.seq)
                kept == IF N <= maxLines THEN N ELSE maxLines
            IN /\ out'.err = NoError
               /\ out'.ss = SubSeq(written.seq, N - kept + 1, N)
               /\ lines' = <<>>
       /\ (out.op = "ReadLine" /\ out.offset = 0 /\ out.err = NoError) =>
            out'.err = EOF]_vars

\* C18 happens: ReadLine(0) has returned as many lines as the cap, not all
\* equal, and has left the buffer empty.
C18_Witness ==
  /\ out.op = "ReadLine" /\ out.offset = 0 /\ out.err = NoError
  /\ Len(out.ss) = maxLines /\ out.ss[1] # out.ss[maxLines]
  /\ lines = <<>> /\ written.ok

----------------------------------------------------------------------------
\* Properties of the Daemon's locking and of its survival

\* C19: d.cmd and d.exitError are written only while d.mu is held.
C19_WritesUnderLock ==
  [][(cmd' # cmd \/ exitError' # exitError) => mu # Unlocked]_vars

\* C20: no sequence of Start, Stop and Status calls, child exits and
\* cancellations makes the Daemon's process panic.
C20_NoPanic == ~crashed

----------------------------------------------------------------------------
\* Properties of the waiter and of what Stop returns

\* The wait statuses that leave no error: killed by a signal, or exit code 0.
Clean == {Signaled, Exited(0)}

\* C21: a successful Start starts the one waiter of its Cmd, and the waiter
\* records the outcome before it closes d.done: no error for a child killed
\* by a signal or exited with code 0, the error carrying the code for
\* another exit code, and an error when Wait fails in any other way.
C21_WaiterRecords ==
  [][/\ \A t \in Callers :
          (pc[t] = "start_spawn" /\ pc'[t] = "idle" /\ ret'[t].err = NoError) =>
            /\ wpc[ret'[t].pgid] = "unborn" /\ wpc'[ret'[t].pgid] = "begin"
            /\ \A k \in Cmds \ {ret'[t].pgid} : wpc'[k] = wpc[k]
     /\ \A k \in Cmds :
          /\ (wpc[k] = "copy" /\ wpc'[k] = "close") =>
               exitError' = IF exitStatus[wcmd[k]] \in Clean THEN NoError
                            ELSE ExitErrorOf(exitStatus[wcmd[k]][2])
          /\ (wpc[k] = "begin" /\ wpc'[k] = "close") => exitError' # NoError
          /\ (wpc[k] # "done" /\ wpc'[k] = "done") => wpc[k] = "close"]_vars

\* C22: a Stop called right after a successful Start, when the waiter has
\* already recorded the error of the child's own exit, returns that error.
C22_StopReturnsRecorded ==
  \A t \in Callers :
    (ret[t].op = "Stop" /\ ret[t].after = "error") =>
      \E code \in ExitCodes \ {0} : ret[t].err = ExitErrorOf(code)

\* C23: when the process group is gone by the time Stop sends SIGINT, the
\* child having been reaped after Stop resolved the group id, Stop does not
\* return an error of the signal but goes on to its select.
C23_GoneGroupTolerated ==
  [][\A t \in Threads :
       (pc[t] = "stop_signal" /\ pc'[t] # "stop_signal" /\ ~GroupExists(pgidOf[t]))
         => pc'[t] = "stop_select"]_vars

\* C24: when Stop resolves the group id while d.cmd has a Process that no
\* longer exists, it returns the error of the resolution, "pgid: no such
\* process", and neither ErrDaemonNotRunning nor nil; it sends no signal,
\* leaves d.cmd as it is and releases the mutex.
C24_StopPgidError ==
  [][\A t \in Threads :
       (pc[t] = "stop_pgid" /\ pc'[t] # "stop_pgid" /\ ~HandleAbsent /\ ~ProcessExists(cmd)) =>
         /\ pc'[t] = (IF t \in Callers THEN "idle" ELSE "finished")
         /\ t \in Callers =>
              /\ ret'[t].op = "Stop"
              /\ ret'[t].err = Wrap("pgid", ESRCH)
              /\ ret'[t].sent = <<>>
         /\ sent' = <<>>
         /\ proc' = proc /\ exitStatus' = exitStatus /\ desc' = desc
         /\ cmd' = cmd /\ cmdProcess' = cmdProcess
         /\ mu' = Unlocked]_vars

\* C24 happens: a Stop has returned "pgid: no such process" for a child that
\* the waiter had reaped, with the handle still in place.
C24_Witness ==
  \E t \in Callers :
    /\ ret[t].op = "Stop" /\ ret[t].via = "pgid"
    /\ ret[t].err = Wrap("pgid", ESRCH)
    /\ ~HandleAbsent /\ proc[cmd] = "reaped"
    /\ done /\ mu = Unlocked

----------------------------------------------------------------------------
\* Properties of the memoryLogger's memory and of its concurrent use

\* C25: the slice a successful ReadLine returned keeps the lines it held
\* when it was returned, whatever is written or read afterwards: its first
\* element is the line it was.
C25_ReturnedLinesStable == held.first = held.was

\* How often the line l occurs in the sequence s.
Count(s, l) == Cardinality({i \in DOMAIN s : s[i] = l})

\* C26: with the child's output written while a caller reads, no line is
\* lost and none is returned twice: when neither goroutine is inside a call,
\* every line a Write has accepted and that was not evicted has either been
\* returned by exactly one ReadLine or is in the buffer, once.
C26_NoneLostNoneTwice ==
  (wr.pc = "idle" /\ rd.pc = "idle") =>
    \A i \in DOMAIN written.seq :
      written.seq[i] \notin got.evicted =>
        Count(got.ss, written.seq[i]) + Count(lines, written.seq[i]) = 1

----------------------------------------------------------------------------
\* Properties of the Server's registry

\* C27: every Daemon of the Server whose process is running is stored in
\* s.Daemons under a name, so that daemonize_stop can reach it.
C27_AliveIsRegistered ==
  \A d \in alive : \E name \in Names : Daemons[name] = d

====
